---- MODULE Spec2Model ----
(***************************************************************************)
(* Model of the StateMachines package (sm.py): the StateMachine engine,   *)
(* its State and Transition objects, the builder API, event dispatch and  *)
(* the reset/suspend/resume lifecycle, together with the event classes    *)
(* and the drag-and-drop machine of smTest.py, and the constructor of     *)
(* declared machines (decorator.py).                                      *)
(*                                                                         *)
(* A State object is identified by its position in _sm_states (states are *)
(* only ever appended); 0 stands for Python's None wherever a State       *)
(* reference is expected.  Every operation is one action; the callbacks   *)
(* it invokes (match, guard, leave, action, enter) are recorded in `log`  *)
(* together with the values of current_state and active they observe.     *)
(***************************************************************************)
EXTENDS Integers, Sequences, FiniteSets, TLC

\* ------------------------------------------------------------------ values

\* Python's None for callables and names; NoState for a State reference.
None == "None"
NoState == 0

\* Values that are not callable, given where a guard or an action is expected:
\* one that is true in a condition (a non-empty string) and one that is false
\* (the empty string, which is also a name no test of truth accepts).
BadValue == "not callable"
FalseValue == ""

\* An instance attribute that may not have been assigned yet is a slot: empty
\* (reading it raises AttributeError) or holding its value.
Unset == <<>>
Assigned(value) == <<value>>
ValueOf(slot) == slot[1]

\* ------------------------------------------------------------------ bounds

\* Largest number of transitions added to the machine with add_transition,
\* in the specification of the whole interface (Spec), of dispatch
\* (SpecDispatch) and of get_transition (SpecScan).
MaxTransitions == 1
MaxDispatchTransitions == 2
MaxScanTransitions == 3

\* Largest number of transitions added in the specification of the builder
\* operations (SpecBuild).
MaxBuildTransitions == 1
MaxRaiseTransitions == 1
MaxQueryTransitions == 2
MaxFrameTransitions == 1
MaxReenterTransitions == 2

\* ------------------------------------------------------------------ events (smTest.py)

Press(button, x, y) == [cls |-> "Press", button |-> button, x |-> x, y |-> y]

Move(x, y) == [cls |-> "Move", button |-> None, x |-> x, y |-> y]

Release(button, x, y) == [cls |-> "Release", button |-> button, x |-> x, y |-> y]

\* Placeholder in log entries of callbacks that receive no event.
NoEvent == [cls |-> None, button |-> None, x |-> 0, y |-> 0]

\* isinstance(event, event_type): every event class derives from Event.
IsInstance(event, event_type) ==
    \/ event.cls = event_type
    \/ event_type = "Event"

\* A match that ignores the transition's arguments.
MatchAny(event, transition) == TRUE

\* event.match(transition): Press and Release compare the transition's first
\* positional argument with their button; Move inherits Event.match.
Match(event, transition) ==
    IF event.cls \in {"Press", "Release"}
    THEN IF transition.args # <<>>
         THEN transition.args[1] = event.button
         ELSE TRUE
    ELSE TRUE

Abs(n) == IF n < 0 THEN -n ELSE n

\* The threshold of the drag machine's guard.
delta == 5

\* hysteresis(p1, p2, delta=5)
hysteresis(p1, p2) ==
    IF Abs(p1.x - p2.x) > delta THEN TRUE
    ELSE IF Abs(p1.y - p2.y) > delta THEN TRUE
    ELSE FALSE

\* callable(v) for the values a guard, an action, enter or leave can hold.
Callable(v) == v \notin {None, BadValue, FalseValue}

\* The truth of such a value in a condition: None and the empty string are false.
Truthy(v) == v \notin {None, FalseValue}

\* The callbacks that raise when they are called; the exception they raise is
\* reported as "CallbackError".
CallbackRaises(callback) ==
    callback \in {"enter_raises", "leave_raises", "action_raises"}

\* guard(event) of the guards used here:
\*   "hysteresis" is  lambda event: self.hysteresis(self.startPoint, event)
GuardCall(guard, event, m) ==
    IF guard = "hysteresis" THEN hysteresis(m.startPoint, event)
    ELSE TRUE

\* action(event) of the transition actions used here: press_action stores the
\* press point; every other action only prints.
ActionCall(action, event, m) ==
    IF action = "press_action"
    THEN [m EXCEPT !.startPoint = [x |-> event.x, y |-> event.y]]
    ELSE m

\* ------------------------------------------------------------------ log

\* One callback invocation: which callback, on which state (and which of its
\* transitions, 0 for enter/leave), with which event, and what the callback
\* reads in current_state and active while it runs.
LogEntry(cb, state, index, event, m) ==
    [cb |-> cb, state |-> state, index |-> index, event |-> event,
     current |-> m.current_state, active |-> m.active]

\* The object an operation returns is named by its place: <<s, 0>> is the
\* State at position s, <<s, i>> the i-th transition of that state.
NoObject == <<0, 0>>

\* The outcome of an operation: the machine afterwards, the value returned
\* ("None", "False", "True", or "State"/"Transition" with the object in obj) or
\* the exception raised, and the callbacks run.
Outcome(m, ret, log) == [m |-> m, ret |-> ret, log |-> log, obj |-> NoObject]

Returning(m, ret, log, obj) == [m |-> m, ret |-> ret, log |-> log, obj |-> obj]

\* StopIteration is how an iterator ends, not a failure of the call.
Raises(ret) ==
    ret \notin {"None", "False", "True", "State", "Transition", "Iterator", "StopIteration"}

\* ------------------------------------------------------------------ State, Transition

\* State.__init__
NewState(name, enter, leave, id) ==
    [name |-> name, enter |-> enter, leave |-> leave,
     transitions |-> <<>>, original |-> id]

\* Transition.__init__: the fields after action, guard and to are extracted.
NewTransition(event_type, args, guard, action, to_state) ==
    [event_type |-> event_type, args |-> args, guard |-> guard,
     action |-> action, to_state |-> to_state]

\* State.__eq__ of the state at position a with another State, given by the
\* identity b of its original: equal iff same original; anything compared with
\* None is not equal.
StateEq(m, a, b) ==
    IF b = NoState THEN FALSE
    ELSE m.states[a].original = b

\* State.get_transition, the loop from position i on, recording the match
\* predicates and guards evaluated.  Yields the position of the transition
\* returned, 0 for None.
RECURSIVE Scan(_, _, _, _, _)
Scan(m, s, event, i, log) ==
    LET ts == m.states[s].transitions IN
    IF i > Len(ts) THEN [transition |-> 0, log |-> log]
    ELSE
      LET t == ts[i] IN
      IF IsInstance(event, t.event_type)
      THEN
        LET log1 == Append(log, LogEntry("match", s, i, event, m)) IN
        IF Match(event, t)
        THEN
          IF Callable(t.guard)
          THEN
            LET log2 == Append(log1, LogEntry("guard", s, i, event, m)) IN
            IF GuardCall(t.guard, event, m)
            THEN [transition |-> i, log |-> log2]
            ELSE Scan(m, s, event, i + 1, log2)
          ELSE [transition |-> i, log |-> log1]
        ELSE Scan(m, s, event, i + 1, log1)
      ELSE Scan(m, s, event, i + 1, log)

\* The scan without the `continue`: a guard that fails ends it.
RECURSIVE ScanStops(_, _, _, _, _)
ScanStops(m, s, event, i, log) ==
    LET ts == m.states[s].transitions IN
    IF i > Len(ts) THEN [transition |-> 0, log |-> log]
    ELSE
      LET t == ts[i] IN
      IF IsInstance(event, t.event_type) /\ Match(event, t)
      THEN
        LET log1 == Append(log, LogEntry("match", s, i, event, m)) IN
        IF Callable(t.guard)
        THEN
          LET log2 == Append(log1, LogEntry("guard", s, i, event, m)) IN
          IF GuardCall(t.guard, event, m)
          THEN [transition |-> i, log |-> log2]
          ELSE [transition |-> 0, log |-> log2]
        ELSE [transition |-> i, log |-> log1]
      ELSE ScanStops(m, s, event, i + 1, log)

get_transition_stops_at_guard(m, s, event) == ScanStops(m, s, event, 1, <<>>)

\* The scan calling the guard of a transition before event.match.
RECURSIVE ScanGuardFirst(_, _, _, _, _)
ScanGuardFirst(m, s, event, i, log) ==
    LET ts == m.states[s].transitions IN
    IF i > Len(ts) THEN [transition |-> 0, log |-> log]
    ELSE
      LET t == ts[i] IN
      IF IsInstance(event, t.event_type)
      THEN
        LET log1 == IF Callable(t.guard)
                    THEN Append(log, LogEntry("guard", s, i, event, m))
                    ELSE log
        IN
        IF Callable(t.guard) /\ ~GuardCall(t.guard, event, m)
        THEN ScanGuardFirst(m, s, event, i + 1, log1)
        ELSE
          LET log2 == Append(log1, LogEntry("match", s, i, event, m)) IN
          IF Match(event, t)
          THEN [transition |-> i, log |-> log2]
          ELSE ScanGuardFirst(m, s, event, i + 1, log2)
      ELSE ScanGuardFirst(m, s, event, i + 1, log)

get_transition_guard_first(m, s, event) == ScanGuardFirst(m, s, event, 1, <<>>)

get_transition(m, s, event) == Scan(m, s, event, 1, <<>>)

\* ------------------------------------------------------------------ StateMachine

\* StateMachine.__init__(active, call_actions).  The constructor stores the
\* call_actions parameter in the three _sm_call_actions_from_* attributes; the
\* _sm_call_actions_on_* attributes that reset, suspend and resume read are
\* not assigned by it.  startPoint is the class attribute of the test machines.
NewStateMachine(active, call_actions) ==
    [states |-> <<>>,
     current_state |-> NoState,
     start_state |-> NoState,
     active |-> active,
     call_actions_from_reset |-> call_actions,
     call_actions_from_suspend |-> call_actions,
     call_actions_from_resume |-> call_actions,
     call_actions_on_reset |-> Unset,
     call_actions_on_suspend |-> Unset,
     call_actions_on_resume |-> Unset,
     startPoint |-> [x |-> 0, y |-> 0]]

\* A reference passed to find_state: a name, or a State object given by the
\* identity of its original (a state made by add_state is its own original,
\* identified by its position).  NoRef is the value of a `to` keyword that was
\* not supplied.
NameRef(name) == [isState |-> FALSE, name |-> name, id |-> NoState]
StateRef(id) == [isState |-> TRUE, name |-> None, id |-> id]
NoRef == NameRef(None)

\* The truth of a reference in a condition: a State is true, a name is true
\* unless it is empty, None is false.
RefTruthy(ref) == ref.isState \/ Truthy(ref.name)

\* StateMachine.find_state: the first state equal to the State given, or the
\* first state with the name given; NoState when there is none.
RECURSIVE FindFrom(_, _, _)
FindFrom(m, ref, i) ==
    IF i > Len(m.states) THEN NoState
    ELSE IF ref.isState
         THEN IF StateEq(m, i, ref.id) THEN i ELSE FindFrom(m, ref, i + 1)
         ELSE IF m.states[i].name = ref.name THEN i ELSE FindFrom(m, ref, i + 1)

\* find_state comparing every reference as a name.
find_state_by_name_only(m, ref) == FindFrom(m, NameRef(ref.name), 1)

find_state(m, ref) == FindFrom(m, ref, 1)

\* add_state without the test that the name is new.
add_state_unchecked(m, name, enter, leave) ==
    LET id == Len(m.states) + 1
        state == NewState(name, enter, leave, id)
        m1 == IF m.start_state = NoState
              THEN [m EXCEPT !.start_state = id, !.current_state = id]
              ELSE m
    IN Returning([m1 EXCEPT !.states = Append(m.states, state)], "State", <<>>, <<id, 0>>)

\* add_state making every new state the start state.
add_state_last_is_start(m, name, enter, leave) ==
    IF find_state(m, NameRef(name)) # NoState
    THEN Outcome(m, "StateAlreadyExists", <<>>)
    ELSE
      LET id == Len(m.states) + 1
          state == NewState(name, enter, leave, id)
          m1 == [m EXCEPT !.start_state = id, !.current_state = id]
      IN Returning([m1 EXCEPT !.states = Append(m.states, state)], "State", <<>>, <<id, 0>>)

\* add_state without the assignment of start_state and current_state.
add_state_without_start(m, name, enter, leave) ==
    IF \E i \in DOMAIN m.states : m.states[i].name = name
    THEN Outcome(m, "StateAlreadyExists", <<>>)
    ELSE LET id == Len(m.states) + 1 IN
         Returning([m EXCEPT !.states = Append(m.states, NewState(name, enter, leave, id))],
                   "State", <<>>, <<id, 0>>)

\* StateMachine.add_state
add_state(m, name, enter, leave) ==
    IF find_state(m, NameRef(name)) # NoState
    THEN Outcome(m, "StateAlreadyExists", <<>>)
    ELSE
      LET id == Len(m.states) + 1
          state == NewState(name, enter, leave, id)
          m1 == IF m.start_state = NoState
                THEN [m EXCEPT !.start_state = id, !.current_state = id]
                ELSE m
      IN Returning([m1 EXCEPT !.states = Append(m.states, state)], "State", <<>>, <<id, 0>>)

\* The transition put at the head of the list.
PrependTransition(m, s, transition) ==
    [m EXCEPT !.states[s].transitions = <<transition>> \o @]

\* State._add_transition
AppendTransition(m, s, transition) ==
    [m EXCEPT !.states[s].transitions = Append(@, transition)]

\* Transition.__init__, the sanity checks on the to, action and guard keywords:
\* the exception raised, "None" when there is none.  Each check is made only
\* when the value is true in a condition.
TransitionChecks(guard, to, action) ==
    IF RefTruthy(to) /\ ~to.isState THEN "StateUnknown"
    ELSE IF Truthy(action) /\ ~Callable(action) THEN "TransitionBadAction"
    ELSE IF Truthy(guard) /\ ~Callable(guard) THEN "TransitionBadGuard"
    ELSE "None"

\* State._add_transition on the state at position s: the transition is
\* constructed, then appended.  The to_state of the transition is the position
\* of the State given, NoState for any value that is false in a condition
\* (the only test the engine makes of it).
State_add_transition(m, s, event_type, args, guard, to, action) ==
    LET raised == TransitionChecks(guard, to, action)
        to_state == IF to.isState THEN to.id ELSE NoState
    IN
    IF raised # "None" THEN Outcome(m, raised, <<>>)
    ELSE Returning(AppendTransition(m, s,
                     NewTransition(event_type, args, guard, action, to_state)),
                   "Transition", <<>>,
                   <<s, Len(m.states[s].transitions) + 1>>)

\* StateMachine.add_transition: `to` is a reference or NoRef.  The destination
\* is looked up only when the value given is true in a condition.
add_transition(m, state, event_type, args, guard, to, action) ==
    LET from_state == find_state(m, state) IN
    IF from_state = NoState
    THEN Outcome(m, "StateUnknown", <<>>)
    ELSE
      IF RefTruthy(to)
      THEN
        LET to_state == find_state(m, to) IN
        IF to_state = NoState
        THEN Outcome(m, "StateUnknown", <<>>)
        ELSE State_add_transition(m, from_state, event_type, args, guard,
                                  StateRef(to_state), action)
      ELSE State_add_transition(m, from_state, event_type, args, guard, to, action)

\* An ignored event reported as fired.
IgnoreAsFired(m, log) == Outcome(m, "True", log)

\* process_event, no transition found: the event is ignored.
Ignore(m, log) == Outcome(m, "False", log)

\* Firing with current_state assigned before the transition's action runs.
FireToSwitchesFirst(m, i, event, log) ==
    LET s == m.current_state
        t == m.states[s].transitions[i]
        fire == Callable(t.action)
        log1 == IF Truthy(m.states[s].leave)
                THEN Append(log, LogEntry("leave", s, 0, NoEvent, m))
                ELSE log
        m2 == [m EXCEPT !.current_state = t.to_state]
        log2 == IF fire
                THEN Append(log1, LogEntry("action", s, i, event, m2))
                ELSE log1
        m3 == IF fire THEN ActionCall(t.action, event, m2) ELSE m2
        log3 == IF Truthy(m3.states[t.to_state].enter)
                THEN Append(log2, LogEntry("enter", t.to_state, 0, NoEvent, m3))
                ELSE log2
    IN Outcome(m3, "True", log3)

\* Firing without calling the transition's action.
FireToWithoutAction(m, i, event, log) ==
    LET s == m.current_state
        t == m.states[s].transitions[i]
        log1 == IF Truthy(m.states[s].leave)
                THEN Append(log, LogEntry("leave", s, 0, NoEvent, m))
                ELSE log
        m3 == [m EXCEPT !.current_state = t.to_state]
        log3 == IF Truthy(m3.states[t.to_state].enter)
                THEN Append(log1, LogEntry("enter", t.to_state, 0, NoEvent, m3))
                ELSE log1
    IN Outcome(m3, "True", log3)

\* FireTo going on after a callback has raised.
FireToSwallowsLeaveError(m, i, event, log) ==
    LET s == m.current_state
        t == m.states[s].transitions[i]
        fire == Callable(t.action)
        log1 == IF Truthy(m.states[s].leave)
                THEN Append(log, LogEntry("leave", s, 0, NoEvent, m))
                ELSE log
        log2 == IF fire
                THEN Append(log1, LogEntry("action", s, i, event, m))
                ELSE log1
        m2 == IF fire THEN ActionCall(t.action, event, m) ELSE m
        m3 == [m2 EXCEPT !.current_state = t.to_state]
        log3 == IF Truthy(m3.states[t.to_state].enter)
                THEN Append(log2, LogEntry("enter", t.to_state, 0, NoEvent, m3))
                ELSE log2
    IN Outcome(m3, "True", log3)

\* Firing with current_state assigned after the enter action has returned.
FireToSwitchesLast(m, i, event, log) ==
    LET s == m.current_state
        t == m.states[s].transitions[i]
        leaves == Truthy(m.states[s].leave)
        fire == Callable(t.action)
        log1 == IF leaves
                THEN Append(log, LogEntry("leave", s, 0, NoEvent, m))
                ELSE log
        log2 == IF fire
                THEN Append(log1, LogEntry("action", s, i, event, m))
                ELSE log1
        m2 == IF fire THEN ActionCall(t.action, event, m) ELSE m
        enters == Truthy(m2.states[t.to_state].enter)
        log3 == IF enters
                THEN Append(log2, LogEntry("enter", t.to_state, 0, NoEvent, m2))
                ELSE log2
    IN IF leaves /\ CallbackRaises(m.states[s].leave)
       THEN Outcome(m, "CallbackError", log1)
       ELSE IF fire /\ CallbackRaises(t.action)
       THEN Outcome(m, "CallbackError", log2)
       ELSE IF enters /\ CallbackRaises(m2.states[t.to_state].enter)
       THEN Outcome(m2, "CallbackError", log3)
       ELSE Outcome([m2 EXCEPT !.current_state = t.to_state], "True", log3)

\* The callbacks that call process_event(ReentryEvent) on their machine: they
\* do so when the outermost process_event calls them and only print when
\* the nested one does.
Reenters(callback) == callback \in {"leave_reenters", "action_reenters"}

ReentryEvent == Move(0, 0)

Unreentrant(callback) ==
    IF callback = "leave_reenters" THEN "leave"
    ELSE IF callback = "action_reenters" THEN "action"
    ELSE callback

\* The machine as the nested process_event finds it: the same, its
\* re-entering callbacks only printing.
Plain(m) ==
    [m EXCEPT !.states =
        [s \in DOMAIN m.states |->
            [name |-> m.states[s].name,
             enter |-> m.states[s].enter,
             leave |-> Unreentrant(m.states[s].leave),
             transitions |->
                 [i \in DOMAIN m.states[s].transitions |->
                     [m.states[s].transitions[i]
                         EXCEPT !.action = Unreentrant(@)]],
             original |-> m.states[s].original]]]

RECURSIVE process_event(_, _)

\* What the call of a callback does beyond running it, on machine m: the
\* nested process_event when the callback re-enters, nothing otherwise.
Reentry(m, callback) ==
    IF Reenters(callback)
    THEN LET inner == process_event(Plain(m), ReentryEvent) IN
         Outcome([inner.m EXCEPT !.states = m.states], inner.ret, inner.log)
    ELSE Outcome(m, "None", <<>>)

\* Firing with current_state assigned only when no callback has changed it.
FireToKeepsInnerState(m, i, event, log) ==
    LET s == m.current_state
        t == m.states[s].transitions[i]
        leave == m.states[s].leave
        leaves == Truthy(leave)
        left == Reentry(m, IF leaves THEN leave ELSE None)
        m1 == left.m
        log1 == IF leaves
                THEN Append(log, LogEntry("leave", s, 0, NoEvent, m)) \o left.log
                ELSE log
        fire == Callable(t.action)
        acted == IF fire
                 THEN Reentry(ActionCall(t.action, event, m1), t.action)
                 ELSE Reentry(m1, None)
        m2 == acted.m
        log2 == IF fire
                THEN Append(log1, LogEntry("action", s, i, event, m1)) \o acted.log
                ELSE log1
        m3 == IF m2.current_state # s THEN m2 ELSE [m2 EXCEPT !.current_state = t.to_state]
        enters == Truthy(m3.states[m3.current_state].enter)
        log3 == IF enters
                THEN Append(log2, LogEntry("enter", m3.current_state, 0, NoEvent, m3))
                ELSE log2
    IN IF leaves /\ CallbackRaises(leave)
       THEN Outcome(m, "CallbackError", log1)
       ELSE IF leaves /\ Raises(left.ret)
       THEN Outcome(m1, left.ret, log1)
       ELSE IF fire /\ CallbackRaises(t.action)
       THEN Outcome(m1, "CallbackError", log2)
       ELSE IF fire /\ Raises(acted.ret)
       THEN Outcome(m2, acted.ret, log2)
       ELSE IF enters /\ CallbackRaises(m3.states[m3.current_state].enter)
       THEN Outcome(m3, "CallbackError", log3)
       ELSE Outcome(m3, "True", log3)

\* process_event, the transition at position i of the current state has a
\* destination: leave action, transition action, new current state, enter action.
\* An exception raised by one of them leaves process_event at that point; a
\* callback may call process_event on the machine.
FireTo(m, i, event, log) ==
    LET s == m.current_state
        t == m.states[s].transitions[i]
        leave == m.states[s].leave
        leaves == Truthy(leave)
        left == Reentry(m, IF leaves THEN leave ELSE None)
        m1 == left.m
        log1 == IF leaves
                THEN Append(log, LogEntry("leave", s, 0, NoEvent, m)) \o left.log
                ELSE log
        fire == Callable(t.action)
        acted == IF fire
                 THEN Reentry(ActionCall(t.action, event, m1), t.action)
                 ELSE Reentry(m1, None)
        m2 == acted.m
        log2 == IF fire
                THEN Append(log1, LogEntry("action", s, i, event, m1)) \o acted.log
                ELSE log1
        m3 == [m2 EXCEPT !.current_state = t.to_state]
        enters == Truthy(m3.states[m3.current_state].enter)
        log3 == IF enters
                THEN Append(log2, LogEntry("enter", m3.current_state, 0, NoEvent, m3))
                ELSE log2
    IN IF leaves /\ CallbackRaises(leave)
       THEN Outcome(m, "CallbackError", log1)
       ELSE IF leaves /\ Raises(left.ret)
       THEN Outcome(m1, left.ret, log1)
       ELSE IF fire /\ CallbackRaises(t.action)
       THEN Outcome(m1, "CallbackError", log2)
       ELSE IF fire /\ Raises(acted.ret)
       THEN Outcome(m2, acted.ret, log2)
       ELSE IF enters /\ CallbackRaises(m3.states[m3.current_state].enter)
       THEN Outcome(m3, "CallbackError", log3)
       ELSE Outcome(m3, "True", log3)

\* A transition without destination fired as a transition to its own state.
FireLoopLeavesAndEnters(m, i, event, log) ==
    LET s == m.current_state
        t == m.states[s].transitions[i]
        fire == Callable(t.action)
        log1 == IF Truthy(m.states[s].leave)
                THEN Append(log, LogEntry("leave", s, 0, NoEvent, m))
                ELSE log
        log2 == IF fire
                THEN Append(log1, LogEntry("action", s, i, event, m))
                ELSE log1
        m2 == IF fire THEN ActionCall(t.action, event, m) ELSE m
        log3 == IF Truthy(m2.states[s].enter)
                THEN Append(log2, LogEntry("enter", s, 0, NoEvent, m2))
                ELSE log2
    IN Outcome(m2, "True", log3)

\* process_event, the transition has no destination: only its action is called.
FireLoop(m, i, event, log) ==
    LET s == m.current_state
        t == m.states[s].transitions[i]
        fire == Callable(t.action)
        log1 == IF fire
                THEN Append(log, LogEntry("action", s, i, event, m))
                ELSE log
        acted == IF fire
                 THEN Reentry(ActionCall(t.action, event, m), t.action)
                 ELSE Reentry(m, None)
    IN IF fire /\ CallbackRaises(t.action)
       THEN Outcome(m, "CallbackError", log1)
       ELSE IF fire /\ Raises(acted.ret)
       THEN Outcome(acted.m, acted.ret, log1 \o acted.log)
       ELSE Outcome(acted.m, "True", log1 \o acted.log)

\* Dispatch taking a transition to the current state for one without
\* destination.
DispatchSelfAsLoop(m, event) ==
    IF m.current_state = NoState THEN Outcome(m, "AttributeError", <<>>)
    ELSE
      LET found == get_transition(m, m.current_state, event) IN
      IF found.transition = 0 THEN Ignore(m, found.log)
      ELSE IF m.states[m.current_state].transitions[found.transition].to_state
                  \notin {NoState, m.current_state}
           THEN FireTo(m, found.transition, event, found.log)
           ELSE FireLoop(m, found.transition, event, found.log)

\* process_event once the machine is known to be active.  With no state added
\* yet current_state is None and the call of get_transition raises.
Dispatch(m, event) ==
    IF m.current_state = NoState THEN Outcome(m, "AttributeError", <<>>)
    ELSE
      LET found == get_transition(m, m.current_state, event) IN
      IF found.transition = 0 THEN Ignore(m, found.log)
      ELSE IF m.states[m.current_state].transitions[found.transition].to_state # NoState
           THEN FireTo(m, found.transition, event, found.log)
           ELSE FireLoop(m, found.transition, event, found.log)

\* process_event without the test of active.
process_event_unchecked(m, event) == Dispatch(m, event)

\* StateMachine.process_event
process_event(m, event) ==
    IF ~m.active THEN Outcome(m, "None", <<>>)
    ELSE Dispatch(m, event)

\* self._sm_current_state.leave() and .enter() as reset, suspend and resume
\* write them: State.__init__ stores the callback in the instance attribute of
\* the same name, so the expression calls the attribute's value.  It raises
\* AttributeError when current_state is None and TypeError when the callback
\* is None; a callback that raises makes the call raise.
CallAttribute(m, which) ==
    IF m.current_state = NoState THEN "AttributeError"
    ELSE LET s == m.states[m.current_state]
             callback == IF which = "leave" THEN s.leave ELSE s.enter
         IN IF ~Callable(callback) THEN "TypeError"
            ELSE IF CallbackRaises(callback) THEN "CallbackError"
            ELSE "None"

\* The callback invoked by such a call that raised: the callback ran when the
\* exception is its own.
Attempted(m, which, raised) ==
    IF raised = "CallbackError"
    THEN <<LogEntry(which, m.current_state, 0, NoEvent, m)>>
    ELSE <<>>

\* The branch of reset that calls the actions, without marking the machine
\* inactive first.
ResetWithActionsWhileActive(m) ==
    LET left == CallAttribute(m, "leave") IN
    IF Raises(left) THEN Outcome(m, left, <<>>)
    ELSE
      LET log1 == <<LogEntry("leave", m.current_state, 0, NoEvent, m)>>
          m2 == [m EXCEPT !.current_state = m.start_state]
          entered == CallAttribute(m2, "enter")
      IN
      IF Raises(entered) THEN Outcome(m2, entered, log1)
      ELSE Outcome([m2 EXCEPT !.active = TRUE], "None",
                   Append(log1, LogEntry("enter", m2.current_state, 0, NoEvent, m2)))

\* The branch of reset that calls the actions, without the final active = True.
ResetWithActionsStaysInactive(m) ==
    LET m1 == [m EXCEPT !.active = FALSE]
        left == CallAttribute(m1, "leave")
    IN
    IF Raises(left) THEN Outcome(m1, left, <<>>)
    ELSE
      LET log1 == <<LogEntry("leave", m1.current_state, 0, NoEvent, m1)>>
          m2 == [m1 EXCEPT !.current_state = m1.start_state]
          entered == CallAttribute(m2, "enter")
      IN
      IF Raises(entered) THEN Outcome(m2, entered, log1)
      ELSE Outcome(m2, "None",
                   Append(log1, LogEntry("enter", m2.current_state, 0, NoEvent, m2)))

\* The branch of reset that calls the actions, active restored when an
\* action raises.
ResetWithActionsRestoresActive(m) ==
    LET m1 == [m EXCEPT !.active = FALSE]
        left == CallAttribute(m1, "leave")
    IN
    IF Raises(left) THEN Outcome(m, left, Attempted(m1, "leave", left))
    ELSE
      LET log1 == <<LogEntry("leave", m1.current_state, 0, NoEvent, m1)>>
          m2 == [m1 EXCEPT !.current_state = m1.start_state]
          entered == CallAttribute(m2, "enter")
      IN
      IF Raises(entered)
      THEN Outcome([m2 EXCEPT !.active = TRUE], entered,
                   log1 \o Attempted(m2, "enter", entered))
      ELSE Outcome([m2 EXCEPT !.active = TRUE], "None",
                   Append(log1, LogEntry("enter", m2.current_state, 0, NoEvent, m2)))

\* reset, the branch that calls the actions: the machine is marked inactive
\* while the leave action of the current state and the enter action of the
\* start state run.
ResetWithActions(m) ==
    LET m1 == [m EXCEPT !.active = FALSE]
        left == CallAttribute(m1, "leave")
    IN
    IF Raises(left) THEN Outcome(m1, left, Attempted(m1, "leave", left))
    ELSE
      LET log1 == <<LogEntry("leave", m1.current_state, 0, NoEvent, m1)>>
          m2 == [m1 EXCEPT !.current_state = m1.start_state]
          entered == CallAttribute(m2, "enter")
      IN
      IF Raises(entered) THEN Outcome(m2, entered, log1 \o Attempted(m2, "enter", entered))
      ELSE Outcome([m2 EXCEPT !.active = TRUE], "None",
                   Append(log1, LogEntry("enter", m2.current_state, 0, NoEvent, m2)))

\* The other branch with its assignment written the wrong way round.
ResetSilentlyMovesStart(m) ==
    Outcome([m EXCEPT !.start_state = m.current_state], "None", <<>>)

\* reset, the other branch.
ResetSilently(m) == Outcome([m EXCEPT !.current_state = m.start_state], "None", <<>>)

\* StateMachine.reset
reset(m) ==
    IF m.call_actions_on_reset = Unset THEN Outcome(m, "AttributeError", <<>>)
    ELSE IF ValueOf(m.call_actions_on_reset) /\ m.active /\ m.current_state # m.start_state
         THEN ResetWithActions(m)
         ELSE ResetSilently(m)

\* suspend without the final active = False.
suspend_keeps_active(m) ==
    IF m.call_actions_on_suspend = Unset THEN Outcome(m, "AttributeError", <<>>)
    ELSE IF ValueOf(m.call_actions_on_suspend) /\ ~m.active
    THEN
      LET m1 == [m EXCEPT !.active = FALSE]
          left == CallAttribute(m1, "leave")
      IN
      IF Raises(left) THEN Outcome(m1, left, <<>>)
      ELSE Outcome(m1, "None", <<LogEntry("leave", m1.current_state, 0, NoEvent, m1)>>)
    ELSE Outcome(m, "None", <<>>)

\* StateMachine.suspend
suspend(m) ==
    IF m.call_actions_on_suspend = Unset THEN Outcome(m, "AttributeError", <<>>)
    ELSE IF ValueOf(m.call_actions_on_suspend) /\ ~m.active
    THEN
      LET m1 == [m EXCEPT !.active = FALSE]
          left == CallAttribute(m1, "leave")
      IN
      IF Raises(left) THEN Outcome(m1, left, Attempted(m1, "leave", left))
      ELSE Outcome([m1 EXCEPT !.active = FALSE], "None",
                   <<LogEntry("leave", m1.current_state, 0, NoEvent, m1)>>)
    ELSE Outcome([m EXCEPT !.active = FALSE], "None", <<>>)

\* resume with active = True assigned before the enter action is called.
resume_marks_active_first(m) ==
    IF m.call_actions_on_resume = Unset THEN Outcome(m, "AttributeError", <<>>)
    ELSE IF ValueOf(m.call_actions_on_resume) /\ ~m.active
    THEN
      LET m1 == [m EXCEPT !.active = TRUE]
          entered == CallAttribute(m1, "enter")
      IN
      IF Raises(entered) THEN Outcome(m1, entered, <<>>)
      ELSE Outcome(m1, "None", <<LogEntry("enter", m1.current_state, 0, NoEvent, m1)>>)
    ELSE Outcome([m EXCEPT !.active = TRUE], "None", <<>>)

\* StateMachine.resume
resume(m) ==
    IF m.call_actions_on_resume = Unset THEN Outcome(m, "AttributeError", <<>>)
    ELSE IF ValueOf(m.call_actions_on_resume) /\ ~m.active
    THEN
      LET entered == CallAttribute(m, "enter") IN
      IF Raises(entered) THEN Outcome(m, entered, Attempted(m, "enter", entered))
      ELSE Outcome([m EXCEPT !.active = TRUE], "None",
                   <<LogEntry("enter", m.current_state, 0, NoEvent, m)>>)
    ELSE Outcome([m EXCEPT !.active = TRUE], "None", <<>>)

\* The application assigns the three booleans that control how actions are
\* called, under the names reset, suspend and resume read them.
set_call_actions(m, value) ==
    [m EXCEPT !.call_actions_on_reset = Assigned(value),
              !.call_actions_on_suspend = Assigned(value),
              !.call_actions_on_resume = Assigned(value)]

\* ------------------------------------------------------------------ queries

\* An iterator a query method returns: which method made it, from which
\* arguments, whether its body has begun (a generator runs nothing before the
\* first next), the states its arguments resolved to, the place it has
\* reached (state si, after the transition ti of that state), whether it has
\* ended, and what it has yielded so far.
Iterator(kind, src, dest) ==
    [kind |-> kind, src |-> src, dest |-> dest, started |-> FALSE,
     s |-> NoState, d |-> NoState, si |-> NoState, ti |-> 0,
     done |-> FALSE, yielded |-> <<>>]

NoIterator == [Iterator("none", NoRef, NoRef) EXCEPT !.done = TRUE]

\* What a query method call gives: the iterator returned, or the exception.
Returned(iterator) == [ret |-> "Iterator", it |-> iterator]
Raised(error) == [ret |-> error, it |-> NoIterator]

\* all_states: iter(self._sm_states), an iterator over the list itself.
all_states(m) == Returned(Iterator("all_states", NoRef, NoRef))

\* all_transitions: a generator.
all_transitions(m) == Returned(Iterator("all_transitions", NoRef, NoRef))

\* transitions_from: resolves the state when called, raises the name
\* StateNotFound, which nothing defines (NameError), and returns an iterator
\* over the list of transitions of the state itself.
transitions_from(m, src_state) ==
    LET s == find_state(m, src_state) IN
    IF s = NoState THEN Raised("NameError")
    ELSE Returned([Iterator("transitions_from", src_state, NoRef)
                       EXCEPT !.started = TRUE, !.s = s, !.si = s])

\* transitions_to and transitions_between: generators, nothing runs at the call.
transitions_to(m, dest_state) == Returned(Iterator("transitions_to", NoRef, dest_state))

transitions_between(m, src_state, dest_state) ==
    Returned(Iterator("transitions_between", src_state, dest_state))

\* transitions(src, dest)
transitions(m, src, dest) ==
    IF RefTruthy(src) /\ RefTruthy(dest) THEN transitions_between(m, src, dest)
    ELSE IF RefTruthy(src) THEN transitions_from(m, dest)
    ELSE IF RefTruthy(dest) THEN transitions_to(m, src)
    ELSE Raised("AttributeError")

\* What next(iterator) gives: the iterator afterwards, the kind of value
\* returned or the exception, and the object returned, by place.
Exhausted(iterator) ==
    [it |-> [iterator EXCEPT !.done = TRUE], ret |-> "StopIteration", obj |-> NoObject]

Failed(iterator, error) ==
    [it |-> [iterator EXCEPT !.done = TRUE], ret |-> error, obj |-> NoObject]

Yield(iterator, kind, s, i) ==
    [it |-> [iterator EXCEPT !.si = s, !.ti = i, !.yielded = Append(@, <<s, i>>)],
     ret |-> kind, obj |-> <<s, i>>]

\* The test without its second alternative, the transitions without
\* destination of the state asked for.
SelectedByDestinationOnly(m, iterator, s, i) ==
    iterator.kind \in {"transitions_to", "transitions_between"} =>
        LET t == m.states[s].transitions[i]
            dest_state == m.states[iterator.d].original
        IN t.to_state # NoState /\ StateEq(m, t.to_state, dest_state)

\* The test of transitions_to and transitions_between on the transition i of
\* state s; the other iterators yield every transition.
Selected(m, iterator, s, i) ==
    iterator.kind \in {"transitions_to", "transitions_between"} =>
        LET t == m.states[s].transitions[i]
            dest_state == m.states[iterator.d].original
        IN \/ t.to_state # NoState /\ StateEq(m, t.to_state, dest_state)
           \/ t.to_state = NoState /\ StateEq(m, s, dest_state)

\* The loops over the states and over the transitions of a state, resumed at
\* state s after its transition i, up to the next yield.  The lists are read
\* as they are now.
RECURSIVE Walk(_, _, _, _)
Walk(m, iterator, s, i) ==
    IF s # NoState /\ i < Len(m.states[s].transitions)
    THEN IF Selected(m, iterator, s, i + 1)
         THEN Yield(iterator, "Transition", s, i + 1)
         ELSE Walk(m, iterator, s, i + 1)
    ELSE IF iterator.kind \in {"transitions_from", "transitions_between"}
         THEN Exhausted(iterator)
         ELSE IF s < Len(m.states)
              THEN Walk(m, iterator, s + 1, 0)
              ELSE Exhausted(iterator)

\* The first next of a generator: its body begins, the references are resolved.
Start(m, iterator) ==
    LET s == find_state(m, iterator.src)
        d == find_state(m, iterator.dest)
    IN IF iterator.kind = "transitions_to"
       THEN IF d = NoState THEN Failed(iterator, "NameError")
            ELSE Walk(m, [iterator EXCEPT !.started = TRUE, !.d = d], NoState, 0)
       ELSE IF iterator.kind = "transitions_between"
       THEN IF s = NoState \/ d = NoState THEN Failed(iterator, "NameError")
            ELSE Walk(m, [iterator EXCEPT !.started = TRUE, !.s = s, !.d = d], s, 0)
       ELSE Walk(m, [iterator EXCEPT !.started = TRUE], NoState, 0)

\* next with the loop over the states ending one state early.
next_misses_last_state(m, iterator) ==
    LET shorter == [m EXCEPT !.states = SubSeq(@, 1, Len(@) - 1)]
        looped == IF iterator.kind = "all_transitions" THEN shorter ELSE m
    IN IF iterator.done THEN Exhausted(iterator)
       ELSE IF iterator.kind = "all_states"
       THEN IF iterator.si < Len(shorter.states)
            THEN Yield(iterator, "State", iterator.si + 1, 0)
            ELSE Exhausted(iterator)
       ELSE IF ~iterator.started THEN Start(looped, iterator)
       ELSE Walk(looped, iterator, iterator.si, iterator.ti)

\* next(iterator) on the machine as it is now.
next(m, iterator) ==
    IF iterator.done THEN Exhausted(iterator)
    ELSE IF iterator.kind = "all_states"
    THEN IF iterator.si < Len(m.states)
         THEN Yield(iterator, "State", iterator.si + 1, 0)
         ELSE Exhausted(iterator)
    ELSE IF ~iterator.started THEN Start(m, iterator)
    ELSE Walk(m, iterator, iterator.si, iterator.ti)

\* statemachine.__init__ (decorator.py) of a class that declares the states
\* `declared` with @state: after StateMachine.__init__, the first declared
\* state found is copied and called, and appending the copy to self.states
\* raises AttributeError, the attribute being _sm_states; with no declared
\* state the loop over self.states that fixes the destinations raises it.
\* No state has been added to the machine at that point.
statemachine_init(active, call_actions, declared) ==
    LET m == NewStateMachine(active, call_actions) IN
    IF declared # <<>>
    THEN Outcome(m, "AttributeError", <<>>)
    ELSE Outcome(m, "AttributeError", <<>>)

\* MySM.__init__ of the test: the drag-and-drop machine built with the
\* builder API.
MySM ==
    LET m0 == NewStateMachine(TRUE, FALSE)
        m1 == add_state(m0, "start", "enter_start", "leave_start").m
        m2 == add_state(m1, "wait", None, None).m
        m3 == add_state(m2, "drag", None, None).m
        m4 == add_transition(m3, NameRef("start"), "Press", <<"Button1">>,
                             None, NameRef("wait"), "press_action").m
        m5 == add_transition(m4, NameRef("start"), "Key", <<>>,
                             None, NameRef("drag"), None).m
        m6 == add_transition(m5, NameRef("wait"), "Move", <<>>,
                             "hysteresis", NameRef("drag"), None).m
        m7 == add_transition(m6, NameRef("drag"), "Move", <<>>,
                             None, NoRef, None).m
    IN add_transition(m7, NameRef("drag"), "Release", <<"Button1">>,
                      None, NameRef("start"), None).m

\* The events testDynSM feeds to the machine, in order.
Scenario ==
    << Press("Button1", 10, 10), Move(12, 10), Move(14, 14), Move(16, 14),
       Move(20, 16), Release("Button2", 16, 16), Release("Button1", 16, 16) >>

\* ------------------------------------------------------------------ state

VARIABLES
    sm,     \* the StateMachine object: its attributes
    pre,    \* the StateMachine object as it was when the last operation was called
    op,     \* the last operation called and the event passed to it
    ret,    \* what it returned, or the exception it raised
    obj,    \* the State or Transition it returned, by place
    log,    \* the callbacks it invoked, in order
    given,  \* the arguments given to it, when it is a builder operation
    fed,    \* how many events of Scenario have been fed, when the events fed so
            \* far are exactly its first ones; OffScript otherwise
    it,     \* the iterator the application holds, NoIterator before any query
    seen    \* the list of states as it was when that iterator was returned

vars == <<sm, pre, op, ret, obj, log, given, fed, it, seen>>

OffScript == Len(Scenario) + 1

\* The constructor returned: there is a machine to call operations on.
Constructed == ~(op.name = "statemachine.__init__" /\ Raises(ret))

Do(name, event, outcome) ==
    /\ Constructed
    /\ pre' = sm
    /\ op' = [name |-> name, event |-> event]
    /\ sm' = outcome.m
    /\ ret' = outcome.ret
    /\ obj' = outcome.obj
    /\ log' = outcome.log

\* The arguments of a builder operation: the state (add_state: its name), and
\* the guard, to and action keywords.
Arguments(state, guard, to, action) ==
    [state |-> state, guard |-> guard, to |-> to, action |-> action]

NoArguments == Arguments(NoRef, None, NoRef, None)

Call(name, event, outcome) ==
    /\ Do(name, event, outcome)
    /\ given' = NoArguments
    /\ UNCHANGED <<fed, it, seen>>

Build(name, arguments, outcome) ==
    /\ Do(name, NoEvent, outcome)
    /\ given' = arguments
    /\ UNCHANGED <<fed, it, seen>>

\* ------------------------------------------------------------------ inputs

Names == {"start", "wait"}

\* The <<enter, leave>> pairs given to add_state.
AllCallbacks == {None, "enter"} \X {None, "leave"}
BothOrNone == {<<None, None>>, <<"enter", "leave">>}
NoCallbacks == {<<None, None>>}
RaisingCallbacks ==
    {<<None, None>>, <<"enter", "leave">>, <<"enter", "leave_raises">>,
     <<"enter_raises", "leave">>}

\* The states given to add_transition by name.
Sources == {NameRef(n) : n \in Names}

References == {NoRef} \cup Sources

Events == {Press("Button1", 0, 0), Press("Button2", 0, 0), Move(0, 0)}

ScanEvents ==
    {Press("Button1", 0, 0), Press("Button2", 0, 0), Press("Button1", 6, 0),
     Move(0, 0), Move(0, 6)}

\* States given to add_transition as State objects: the first state of the
\* machine, and a State that belongs to no machine built here.
FirstState == StateRef(1)
ForeignState == StateRef(Cardinality(Names) + 1)

BuildSources == Sources \cup {FirstState, ForeignState}

BuildDestinations == References \cup {NameRef(FalseValue), FirstState, ForeignState}

\* Values given as guard and as action.
GuardValues == {None, "hysteresis", BadValue, FalseValue}
ActionValues == {None, "action", BadValue, FalseValue}

\* The classes instantiated: the states they declare.
Templates == {<<>>, <<"start", "wait", "drag">>}

\* The references given to find_state and to the query methods.
FindReferences == BuildSources \cup {NoRef}
QueryReferences == Sources

\* The machines whose callbacks call process_event.
ReenterNames == {"start", "wait", "drag"}
ReenterCallbacks == {<<"enter", "leave">>, <<"enter", "leave_reenters">>}

FrameEvents == {Press("Button1", 0, 0), Move(0, 0)}

DragEvents ==
    {Scenario[i] : i \in DOMAIN Scenario}
        \cup {Press("Button2", 10, 10), Press("Button1", 14, 14), Press("Button1", 16, 16),
              Move(10, 16), Release("Button1", 10, 10)}

\* ------------------------------------------------------------------ actions

Construct(machine) ==
    /\ sm = machine
    /\ pre = machine
    /\ op = [name |-> "__init__", event |-> NoEvent]
    /\ ret = "None"
    /\ obj = NoObject
    /\ log = <<>>
    /\ given = NoArguments
    /\ fed = 0
    /\ it = NoIterator
    /\ seen = machine.states

\* The instantiation of a class derived from statemachine.
Instantiate(templates) ==
    \E declared \in templates :
        LET outcome == statemachine_init(TRUE, FALSE, declared) IN
        /\ sm = outcome.m
        /\ pre = outcome.m
        /\ op = [name |-> "statemachine.__init__", event |-> NoEvent]
        /\ ret = outcome.ret
        /\ obj = outcome.obj
        /\ log = outcome.log
        /\ given = NoArguments
        /\ fed = 0
        /\ it = NoIterator
        /\ seen = outcome.m.states

AddState(names, callbacks) ==
    \E name \in names, cb \in callbacks :
        Build("add_state", Arguments(NameRef(name), None, NoRef, None),
              add_state(sm, name, cb[1], cb[2]))

RECURSIVE CountTransitions(_, _)
CountTransitions(m, i) ==
    IF i > Len(m.states) THEN 0
    ELSE Len(m.states[i].transitions) + CountTransitions(m, i + 1)

AddTransition(sources, event_types, arguments, guards, actions, tos, bound) ==
    \E state \in sources, event_type \in event_types, args \in arguments,
       guard \in guards, action \in actions, to \in tos :
        /\ CountTransitions(sm, 1) < bound
        /\ Build("add_transition", Arguments(state, guard, to, action),
                 add_transition(sm, state, event_type, args, guard, to, action))

\* State._add_transition called on a state of the machine, as the transition
\* declarations do: the to keyword reaches Transition.__init__ as given.
AddTransitionToState(guards, actions, tos, bound) ==
    \E s \in DOMAIN sm.states, guard \in guards, action \in actions, to \in tos :
        /\ CountTransitions(sm, 1) < bound
        /\ Build("_add_transition", Arguments(StateRef(s), guard, to, action),
                 State_add_transition(sm, s, "Press", <<>>, guard, to, action))

ProcessEvent(events) ==
    \E event \in events : Call("process_event", event, process_event(sm, event))

\* A direct call of get_transition on the current state, as process_event
\* makes it.
GetTransition(events) ==
    \E event \in events :
        /\ sm.current_state # NoState
        /\ LET found == get_transition(sm, sm.current_state, event) IN
           Call("get_transition", event,
                IF found.transition = 0
                THEN Outcome(sm, "None", found.log)
                ELSE Returning(sm, "Transition", found.log,
                               <<sm.current_state, found.transition>>))

FindState(references) ==
    \E state \in references :
        LET found == find_state(sm, state) IN
        Build("find_state", Arguments(state, None, NoRef, None),
              IF found = NoState
              THEN Outcome(sm, "None", <<>>)
              ELSE Returning(sm, "State", <<>>, <<found, 0>>))

\* A call of a query method; the application keeps the iterator it returns.
Query(name, src, dest, result) ==
    /\ Do(name, NoEvent, Outcome(sm, result.ret, <<>>))
    /\ given' = Arguments(src, None, dest, None)
    /\ it' = IF Raises(result.ret) THEN it ELSE result.it
    /\ seen' = IF Raises(result.ret) THEN seen ELSE sm.states
    /\ UNCHANGED fed

AllStates == Query("all_states", NoRef, NoRef, all_states(sm))

AllTransitions == Query("all_transitions", NoRef, NoRef, all_transitions(sm))

TransitionsFrom(references) ==
    \E src \in references :
        Query("transitions_from", src, NoRef, transitions_from(sm, src))

TransitionsTo(references) ==
    \E dest \in references :
        Query("transitions_to", NoRef, dest, transitions_to(sm, dest))

TransitionsBetween(references) ==
    \E src \in references, dest \in references :
        Query("transitions_between", src, dest, transitions_between(sm, src, dest))

Transitions(references) ==
    \E src \in references, dest \in references :
        Query("transitions", src, dest, transitions(sm, src, dest))

\* next() on the iterator held, until it has ended.
NextItem ==
    /\ it.kind # "none"
    /\ ~it.done
    /\ LET item == next(sm, it) IN
       /\ Do("next", NoEvent, Returning(sm, item.ret, <<>>, item.obj))
       /\ it' = item.it
    /\ given' = NoArguments
    /\ UNCHANGED <<fed, seen>>

Reset == Call("reset", NoEvent, reset(sm))

Suspend == Call("suspend", NoEvent, suspend(sm))

Resume == Call("resume", NoEvent, resume(sm))

SetCallActions ==
    \E value \in BOOLEAN :
        Call("set_call_actions", NoEvent, Outcome(set_call_actions(sm, value), "None", <<>>))

\* process_event on the drag-and-drop machine, following the script.
Feed(events) ==
    \E event \in events :
        /\ Do("process_event", event, process_event(sm, event))
        /\ given' = NoArguments
        /\ fed' = IF fed # OffScript /\ fed < Len(Scenario) /\ event = Scenario[fed + 1]
                  THEN fed + 1
                  ELSE OffScript
        /\ UNCHANGED <<it, seen>>

\* ------------------------------------------------------------------ specifications

\* The whole interface on a machine built with the builder API.
Init ==
    \E active \in BOOLEAN, call_actions \in BOOLEAN :
        Construct(NewStateMachine(active, call_actions))

Next ==
    \/ AddState(Names, AllCallbacks)
    \/ AddTransition(Sources, {"Press"}, {<<"Button1">>}, {None}, {None, "action"},
                     References, MaxTransitions)
    \/ ProcessEvent(Events)
    \/ Reset
    \/ Suspend
    \/ Resume
    \/ SetCallActions

Spec == Init /\ [][Next]_vars

\* Dispatch: machines with up to two states and several transitions.
InitDispatch ==
    \E active \in BOOLEAN : Construct(NewStateMachine(active, FALSE))

NextDispatch ==
    \/ AddState(Names, BothOrNone)
    \/ AddTransition(Sources, {"Press", "Move"}, {<<"Button1">>}, {None}, {None, "action"},
                     References, MaxDispatchTransitions)
    \/ ProcessEvent(Events)

SpecDispatch == InitDispatch /\ [][NextDispatch]_vars

\* get_transition: one state with transitions of every kind, args and guard.
InitScan == Construct(NewStateMachine(TRUE, FALSE))

NextScan ==
    \/ AddState({"start"}, NoCallbacks)
    \/ AddTransition({NameRef("start")}, {"Press", "Move", "Event"}, {<<>>, <<"Button1">>},
                     {None, "hysteresis"}, {None}, {NoRef}, MaxScanTransitions)
    \/ GetTransition(ScanEvents)

SpecScan == InitScan /\ [][NextScan]_vars

\* The builder operations with every kind of reference and of value, on a
\* machine made by the constructor or by instantiating a declared class.
InitBuild ==
    \/ Construct(NewStateMachine(TRUE, FALSE))
    \/ Instantiate(Templates)

NextBuild ==
    \/ AddState(Names, NoCallbacks)
    \/ AddTransition(BuildSources, {"Press"}, {<<>>}, {None}, {None},
                     BuildDestinations, MaxBuildTransitions)
    \/ AddTransition({NameRef("start")}, {"Press"}, {<<>>}, GuardValues, ActionValues,
                     {NoRef}, MaxBuildTransitions)
    \/ AddTransitionToState({None, BadValue}, {None, FalseValue},
                            {NoRef, NameRef("wait"), NameRef(FalseValue), FirstState},
                            MaxBuildTransitions)
    \/ FindState(FindReferences)
    \/ ProcessEvent(Events)

SpecBuild == InitBuild /\ [][NextBuild]_vars

\* The drag-and-drop machine of the tests, fed with events.
InitDrag == Construct(MySM)

NextDrag == Feed(DragEvents)

SpecDrag == InitDrag /\ [][NextDrag]_vars

\* process_event and reset on machines whose callbacks may raise.
InitRaise == Construct(NewStateMachine(TRUE, FALSE))

NextRaise ==
    \/ AddState(Names, RaisingCallbacks)
    \/ AddTransition(Sources, {"Press"}, {<<"Button1">>}, {None},
                     {None, "action", "action_raises"}, References, MaxRaiseTransitions)
    \/ ProcessEvent(Events)
    \/ Reset
    \/ Resume
    \/ SetCallActions

SpecRaise == InitRaise /\ [][NextRaise]_vars

\* find_state and the query methods, with builder operations between the
\* call of a query method and the use of its iterator.
InitQuery == Construct(NewStateMachine(TRUE, FALSE))

NextQuery ==
    \/ AddState(Names, NoCallbacks)
    \/ AddTransition(Sources, {"Press"}, {<<>>}, {None}, {None}, {NoRef, NameRef("wait")},
                     MaxQueryTransitions)
    \/ AllStates
    \/ AllTransitions
    \/ TransitionsFrom(QueryReferences)
    \/ TransitionsTo(QueryReferences)
    \/ TransitionsBetween(QueryReferences)
    \/ Transitions(References)
    \/ NextItem

SpecQuery == InitQuery /\ [][NextQuery]_vars

\* Every operation of the interface, on small machines.
InitFrame == Construct(NewStateMachine(TRUE, FALSE))

NextFrame ==
    \/ AddState(Names, {<<"enter", "leave">>})
    \/ AddTransition({NameRef("start")}, {"Press"}, {<<"Button1">>}, {None}, {"action"},
                     {NoRef, NameRef("wait")}, MaxFrameTransitions)
    \/ ProcessEvent(FrameEvents)
    \/ GetTransition(FrameEvents)
    \/ FindState(Sources)
    \/ Reset
    \/ Suspend
    \/ Resume
    \/ SetCallActions
    \/ AllStates
    \/ AllTransitions
    \/ TransitionsFrom({NameRef("start")})
    \/ TransitionsTo({NameRef("wait")})
    \/ TransitionsBetween({NameRef("start")})
    \/ NextItem

SpecFrame == InitFrame /\ [][NextFrame]_vars

\* process_event called by a callback that process_event is running.
InitReenter == Construct(NewStateMachine(TRUE, FALSE))

NextReenter ==
    \/ AddState(ReenterNames, ReenterCallbacks)
    \/ AddTransition({NameRef("start")}, {"Press", "Move"}, {<<>>}, {None},
                     {"action", "action_reenters"},
                     {NameRef("wait"), NameRef("drag")}, MaxReenterTransitions)
    \/ ProcessEvent(FrameEvents)

SpecReenter == InitReenter /\ [][NextReenter]_vars

\* ------------------------------------------------------------------ properties

\* What a transition needs for get_transition to return it for an event: the
\* event is of its type, event.match accepts it, and its guard, if any, holds.
Eligible(m, s, i, event) ==
    LET t == m.states[s].transitions[i] IN
    /\ IsInstance(event, t.event_type)
    /\ Match(event, t)
    /\ (t.guard # None => GuardCall(t.guard, event, m))

EligibleSet(m, s, event) ==
    {i \in DOMAIN m.states[s].transitions : Eligible(m, s, i, event)}

\* The first eligible transition in insertion order, 0 when there is none.
FirstEligible(m, s, event) ==
    LET e == EligibleSet(m, s, event) IN
    IF e = {} THEN 0 ELSE CHOOSE i \in e : \A j \in e : i <= j

\* The leave, transition and enter actions among the callbacks logged.
ActionsRun(l) == SelectSeq(l, LAMBDA x : x.cb \in {"leave", "action", "enter"})

EntriesOf(l, cb) == SelectSeq(l, LAMBDA x : x.cb = cb)

\* The last operation was process_event on an active machine with a current state.
Dispatched ==
    /\ op.name = "process_event"
    /\ pre.active
    /\ pre.current_state # NoState

\* The transition it fired (its position in the current state), 0 if none.
Fired == FirstEligible(pre, pre.current_state, op.event)

FiredTransition == pre.states[pre.current_state].transitions[Fired]

LeaveStep(m, s, active) ==
    IF m.states[s].leave # None
    THEN << [cb |-> "leave", state |-> s, index |-> 0, event |-> NoEvent,
             current |-> s, active |-> active] >>
    ELSE <<>>

EnterStep(m, s, active) ==
    IF m.states[s].enter # None
    THEN << [cb |-> "enter", state |-> s, index |-> 0, event |-> NoEvent,
             current |-> s, active |-> active] >>
    ELSE <<>>

\* C1: when process_event fires a transition from A with destination B, the
\* callbacks run are A's leave action, the transition's action with the event
\* and B's enter action, in this order; leave and the transition's action see
\* current_state = A, enter sees current_state = B, and current_state is B
\* when the call returns.
C1_LeaveActionEnter ==
    (Dispatched /\ Fired # 0 /\ FiredTransition.to_state # NoState) =>
        LET A == pre.current_state
            B == FiredTransition.to_state
            actionStep ==
                IF FiredTransition.action # None
                THEN << [cb |-> "action", state |-> A, index |-> Fired,
                         event |-> op.event, current |-> A, active |-> TRUE] >>
                ELSE <<>>
        IN /\ ActionsRun(log) = LeaveStep(pre, A, TRUE) \o actionStep \o EnterStep(pre, B, TRUE)
           /\ sm.current_state = B
           /\ ret = "True"

C1_Witness ==
    /\ Dispatched /\ Fired # 0
    /\ FiredTransition.to_state \notin {NoState, pre.current_state}
    /\ Len(ActionsRun(log)) = 3

\* C2: get_transition returns the first transition in insertion order whose
\* event type, match and guard all accept the event, skipping transitions
\* whose guard fails, and None when there is none.
C2_FirstEligible ==
    op.name = "get_transition" =>
        LET first == FirstEligible(pre, pre.current_state, op.event) IN
        IF first = 0
        THEN ret = "None" /\ obj = NoObject
        ELSE ret = "Transition" /\ obj = <<pre.current_state, first>>

C2_Witness ==
    /\ op.name = "get_transition"
    /\ obj = <<pre.current_state, 2>>
    /\ LET t == pre.states[pre.current_state].transitions[1] IN
         /\ IsInstance(op.event, t.event_type)
         /\ Match(op.event, t)
         /\ t.guard # None
    /\ 3 \in EligibleSet(pre, pre.current_state, op.event)

\* C3: when process_event fires a transition without destination, only the
\* transition's action runs, no leave and no enter action, and current_state
\* is unchanged.
C3_SelfLoop ==
    (Dispatched /\ Fired # 0 /\ FiredTransition.to_state = NoState) =>
        /\ ActionsRun(log) = EntriesOf(log, "action")
        /\ Len(EntriesOf(log, "action")) = (IF FiredTransition.action # None THEN 1 ELSE 0)
        /\ sm.current_state = pre.current_state
        /\ ret = "True"

C3_Witness ==
    /\ Dispatched /\ Fired # 0
    /\ FiredTransition.to_state = NoState
    /\ FiredTransition.action # None
    /\ pre.states[pre.current_state].leave # None
    /\ pre.states[pre.current_state].enter # None

C5_NoMatchIgnored ==
    (Dispatched /\ Fired = 0) =>
        /\ ret = "False"
        /\ ActionsRun(log) = <<>>
        /\ sm.current_state = pre.current_state

C5_Witness ==
    /\ Dispatched /\ Fired = 0
    /\ Len(pre.states[pre.current_state].transitions) = 2
    /\ log # <<>>

\* C6: on an active machine, when a transition of the current state matches,
\* process_event calls that transition's action, if it has one, exactly once
\* with the event, calls no other transition's action and returns True; it
\* returns True in no other case.
C6_ActionOnce ==
    /\ (Dispatched /\ Fired # 0) =>
          /\ ret = "True"
          /\ LET called == EntriesOf(log, "action") IN
             IF FiredTransition.action # None
             THEN /\ Len(called) = 1
                  /\ called[1].state = pre.current_state
                  /\ called[1].index = Fired
                  /\ called[1].event = op.event
             ELSE called = <<>>
    /\ (op.name = "process_event" /\ ret = "True") => (Dispatched /\ Fired # 0)

C6_Witness ==
    /\ Dispatched /\ Fired = 1
    /\ EligibleSet(pre, pre.current_state, op.event) = {1, 2}
    /\ FiredTransition.action # None
    /\ pre.states[pre.current_state].transitions[2].action # None

\* The name of the current state.
CurrentName == sm.states[sm.current_state].name

\* C7: on the drag-and-drop machine, the events Press(Button1,10,10),
\* Move(12,10), Move(14,14), Move(16,14), Move(20,16), Release(Button2,16,16),
\* Release(Button1,16,16) fed from start leave the machine in wait, wait, wait,
\* drag, drag, drag, start; Release(Button2) is ignored (returns False).
C7_DragScenario ==
    fed \in DOMAIN Scenario =>
        /\ CurrentName = <<"wait", "wait", "wait", "drag", "drag", "drag", "start">>[fed]
        /\ (Scenario[fed] = Release("Button2", 16, 16) => ret = "False")

C7_Witness == fed = Len(Scenario) /\ CurrentName = "start"

\* C8: reset() on an active machine with call_actions_on_reset true and
\* current_state different from start_state runs the leave action of the old
\* current state, then the enter action of start_state, nothing else, and
\* active is true when it returns.
C8_ResetLeaveThenEnter ==
    (/\ op.name = "reset"
     /\ pre.call_actions_on_reset = Assigned(TRUE)
     /\ pre.active
     /\ pre.current_state # pre.start_state) =>
        /\ ~Raises(ret)
        /\ log = LeaveStep(pre, pre.current_state, FALSE) \o EnterStep(pre, pre.start_state, FALSE)
        /\ sm.active

\* C9: after reset() returns, current_state is start_state and active is what
\* it was before the call; when call_actions_on_reset is not true, or the
\* machine is inactive, or current_state is already start_state, reset runs
\* no enter and no leave action.
C9_ResetToStart ==
    op.name = "reset" =>
        /\ ~Raises(ret) =>
              /\ sm.current_state = pre.start_state
              /\ sm.start_state = pre.start_state
              /\ sm.active = pre.active
        /\ (\/ pre.call_actions_on_reset # Assigned(TRUE)
            \/ ~pre.active
            \/ pre.current_state = pre.start_state) => log = <<>>

C9_Witness ==
    /\ op.name = "reset"
    /\ ~Raises(ret)
    /\ pre.current_state # pre.start_state
    /\ Len(log) = 2
    /\ sm.active

\* C10: on an active machine with call_actions_on_suspend and
\* call_actions_on_resume true, suspend() followed by resume() runs the current
\* state's leave action once, during suspend, and its enter action once,
\* during resume, and active is true afterwards.
C10_SuspendThenResume ==
    [][(/\ op.name = "suspend"
        /\ pre.active
        /\ pre.call_actions_on_suspend = Assigned(TRUE)
        /\ pre.call_actions_on_resume = Assigned(TRUE)
        /\ pre.current_state # NoState
        /\ pre.states[pre.current_state].leave # None
        /\ pre.states[pre.current_state].enter # None
        /\ op'.name = "resume") =>
            /\ Len(EntriesOf(log, "leave")) = 1
            /\ Len(EntriesOf(log', "enter")) = 1
            /\ sm'.active]_vars

\* C11: suspend() runs the current state's leave action exactly when
\* call_actions_on_suspend is true and the machine was active when it was
\* called, and that action reads active = False; on an inactive machine, or
\* with the flag false, suspend() runs no action.
C11_SuspendLeavesWhenActive ==
    (/\ op.name = "suspend"
     /\ pre.call_actions_on_suspend # Unset
     /\ pre.current_state # NoState) =>
        IF ValueOf(pre.call_actions_on_suspend) /\ pre.active
        THEN log = LeaveStep(pre, pre.current_state, FALSE)
        ELSE log = <<>>

\* C12: resume() runs the current state's enter action exactly when
\* call_actions_on_resume is true and the machine was inactive when it was
\* called, and that action still reads active = False; on an active machine,
\* or with the flag false, resume() runs no action.
C12_ResumeEntersWhenInactive ==
    op.name = "resume" =>
        IF /\ pre.call_actions_on_resume = Assigned(TRUE)
           /\ ~pre.active
           /\ pre.current_state # NoState
        THEN log = EnterStep(pre, pre.current_state, FALSE)
        ELSE log = <<>>

C12_Witness ==
    /\ op.name = "resume"
    /\ pre.call_actions_on_resume = Assigned(TRUE)
    /\ ~pre.active
    /\ Len(log) = 1
    /\ sm.active

\* C13: after suspend() returns active is False and after resume() returns
\* active is True, whatever the flags and the value of active before; neither
\* changes current_state.
C13_SuspendResumeSetActive ==
    /\ op.name = "suspend" =>
          /\ sm.current_state = pre.current_state
          /\ ~Raises(ret) => ~sm.active
    /\ op.name = "resume" =>
          /\ sm.current_state = pre.current_state
          /\ ~Raises(ret) => sm.active

C13_Witness ==
    /\ op.name = "suspend"
    /\ ~Raises(ret)
    /\ pre.active
    /\ pre.call_actions_on_suspend = Assigned(TRUE)
    /\ pre.current_state # NoState
    /\ ~sm.active

\* A process_event call made by the callback of a log entry: the machine it
\* finds has the current_state and the active the callback reads.
NestedCall(entry, event) ==
    process_event([pre EXCEPT !.current_state = entry.current,
                              !.active = entry.active], event)

\* C14: during a reset() that calls the actions, the leave and the enter action
\* read active = False, so that a process_event call made from inside either
\* returns None and fires nothing; active is True again once the enter action
\* has returned.
C14_ResetRunsActionsInactive ==
    op.name = "reset" =>
        /\ \A k \in DOMAIN log :
              /\ ~log[k].active
              /\ \A event \in Events :
                    LET inner == NestedCall(log[k], event) IN
                    /\ inner.ret = "None"
                    /\ inner.log = <<>>
                    /\ inner.m.current_state = log[k].current
        /\ (Len(log) = 2 /\ ~Raises(ret)) => sm.active

C14_Witness ==
    /\ op.name = "reset"
    /\ Len(log) = 2
    /\ sm.active
    /\ \E event \in Events : FirstEligible(pre, log[2].current, event) # 0

\* The machine with the three flags holding the value of the constructor's
\* call_actions parameter.
WithConstructorFlags(m) ==
    [m EXCEPT !.call_actions_on_reset = Assigned(m.call_actions_from_reset),
              !.call_actions_on_suspend = Assigned(m.call_actions_from_suspend),
              !.call_actions_on_resume = Assigned(m.call_actions_from_resume)]

\* What the last operation yields on machine m.
Expected(m) ==
    IF op.name = "reset" THEN reset(m)
    ELSE IF op.name = "suspend" THEN suspend(m)
    ELSE resume(m)

\* C15: a machine constructed with active = a and call_actions = c has active
\* equal to a and its three flags equal to c, and reset(), suspend() and
\* resume() called with no further setup use these values.
C15_ConstructorSetsFlags ==
    (/\ op.name \in {"reset", "suspend", "resume"}
     /\ pre.call_actions_on_reset = Unset
     /\ pre.call_actions_on_suspend = Unset
     /\ pre.call_actions_on_resume = Unset) =>
        LET expected == Expected(WithConstructorFlags(pre)) IN
        /\ ret = expected.ret
        /\ log = expected.log
        /\ sm.active = expected.m.active
        /\ sm.current_state = expected.m.current_state

\* The names of the states of a machine.
NamesOf(m) == {m.states[i].name : i \in DOMAIN m.states}

\* C16: add_state(name) raises StateAlreadyExists when the machine has a state
\* of that name, leaving the list of states, start_state and current_state
\* unchanged; the names of the states of a machine are pairwise distinct.
C16_StateNamesUnique ==
    /\ (op.name = "add_state" /\ given.state.name \in NamesOf(pre)) =>
          /\ ret = "StateAlreadyExists"
          /\ sm.states = pre.states
          /\ sm.start_state = pre.start_state
          /\ sm.current_state = pre.current_state
    /\ \A i, j \in DOMAIN sm.states :
          sm.states[i].name = sm.states[j].name => i = j

C16_Witness ==
    /\ op.name = "add_state"
    /\ ret = "StateAlreadyExists"
    /\ Len(sm.states) = 2
    /\ sm.current_state # sm.start_state

\* C17: the first state added becomes start_state and current_state; a later
\* add_state changes neither, and once set start_state is changed by no
\* operation.
C17_FirstStateIsStart ==
    /\ (op.name = "add_state" /\ ret = "State") =>
          IF pre.states = <<>>
          THEN sm.start_state = 1 /\ sm.current_state = 1
          ELSE /\ sm.start_state = pre.start_state
               /\ sm.current_state = pre.current_state
    /\ pre.start_state # NoState => sm.start_state = pre.start_state

C17_Witness ==
    /\ op.name = "add_state"
    /\ ret = "State"
    /\ Len(pre.states) = 1
    /\ sm.start_state = 1
    /\ sm.current_state = 1

\* A reference resolves in a machine: a name is the name of one of its states,
\* a State has the original of one of its states.
Resolves(m, ref) ==
    \E i \in DOMAIN m.states :
        IF ref.isState THEN m.states[i].original = ref.id
        ELSE m.states[i].name = ref.name

\* C18: add_transition raises StateUnknown when its source reference, or a
\* destination reference supplied to it, resolves to no state of the machine,
\* by name or by State, and then adds no transition to any state.
C18_UnresolvedStateRaises ==
    (/\ op.name = "add_transition"
     /\ \/ ~Resolves(pre, given.state)
        \/ given.to # NoRef /\ ~Resolves(pre, given.to)) =>
        /\ ret = "StateUnknown"
        /\ sm.states = pre.states

\* C19: in every machine, made with add_state and add_transition or by
\* instantiating a declared class, the destination of each transition is
\* absent or a state of the list of states of that machine.
C19_DestinationsInMachine ==
    /\ Constructed
    /\ \A s \in DOMAIN sm.states :
          \A i \in DOMAIN sm.states[s].transitions :
              sm.states[s].transitions[i].to_state \in {NoState} \cup DOMAIN sm.states

\* The contract a transition construction violates first, in the order the
\* constructor checks them; "Transition" when it violates none.
Violation(arguments) ==
    IF arguments.to # NoRef /\ ~arguments.to.isState THEN "StateUnknown"
    ELSE IF arguments.action # None /\ ~Callable(arguments.action) THEN "TransitionBadAction"
    ELSE IF arguments.guard # None /\ ~Callable(arguments.guard) THEN "TransitionBadGuard"
    ELSE "Transition"

\* C20: the construction of a transition raises StateUnknown when a
\* destination is supplied that is not a State, TransitionBadAction when an
\* action is supplied that is not callable, TransitionBadGuard when a guard is
\* supplied that is not callable, whatever the value; a transition that fails
\* these checks is not appended to its source state.
C20_TransitionValidated ==
    /\ op.name = "_add_transition" =>
          /\ ret = Violation(given)
          /\ Raises(ret) => sm.states = pre.states
    /\ (/\ op.name = "add_transition"
        /\ Resolves(pre, given.state)
        /\ given.to = NoRef \/ Resolves(pre, given.to)) =>
          /\ ret = Violation([given EXCEPT !.to = NoRef])
          /\ Raises(ret) => sm.states = pre.states

\* C21: process_event raises no error on any machine the constructor and the
\* builder operations can produce, the machine with no state included, when no
\* callback raises.
C21_ProcessEventNeverRaises ==
    op.name = "process_event" => ret \in {"None", "False", "True"}

\* C22: when the leave action of the current state raises while process_event
\* fires a transition with a destination, the exception leaves process_event,
\* neither the transition's action nor the destination's enter action runs,
\* and current_state is still the source state.
C22_LeaveErrorPropagates ==
    (/\ Dispatched /\ Fired # 0
     /\ FiredTransition.to_state # NoState
     /\ CallbackRaises(pre.states[pre.current_state].leave)) =>
        /\ ret = "CallbackError"
        /\ ActionsRun(log) = LeaveStep(pre, pre.current_state, TRUE)
        /\ sm.current_state = pre.current_state
        /\ sm = pre

C22_Witness ==
    /\ Dispatched /\ Fired # 0
    /\ FiredTransition.to_state \notin {NoState, pre.current_state}
    /\ CallbackRaises(pre.states[pre.current_state].leave)
    /\ FiredTransition.action = "action"
    /\ pre.states[FiredTransition.to_state].enter = "enter"
    /\ ret = "CallbackError"

\* C23: on a machine whose states have no enter or leave callback,
\* process_event, reset, suspend and resume complete without error and skip
\* the absent callbacks.
C23_AbsentCallbacksSkipped ==
    (/\ op.name \in {"process_event", "reset", "suspend", "resume"}
     /\ pre.current_state # NoState
     /\ pre.call_actions_on_reset # Unset
     /\ pre.call_actions_on_suspend # Unset
     /\ pre.call_actions_on_resume # Unset
     /\ \A s \in DOMAIN pre.states :
           pre.states[s].enter = None /\ pre.states[s].leave = None) =>
        /\ ~Raises(ret)
        /\ EntriesOf(log, "enter") = <<>>
        /\ EntriesOf(log, "leave") = <<>>

\* The states of m a reference designates: by name, or by the identity of
\* the State the reference is.
Designated(m, ref) ==
    {i \in DOMAIN m.states :
        IF ref.isState THEN m.states[i].original = ref.id
        ELSE m.states[i].name = ref.name}

\* C24: find_state returns the machine's own state whose name is the string
\* given, or whose identity is that of the State given, and None, without
\* raising, when there is none; for every state S of the machine,
\* find_state(S.name) and find_state(S) are both S.
C24_FindState ==
    /\ op.name = "find_state" =>
          /\ sm = pre
          /\ IF Designated(pre, given.state) = {}
             THEN ret = "None" /\ obj = NoObject
             ELSE ret = "State" /\ Designated(pre, given.state) = {obj[1]} /\ obj[2] = 0
    /\ \A s \in DOMAIN sm.states :
          /\ find_state(sm, NameRef(sm.states[s].name)) = s
          /\ find_state(sm, StateRef(sm.states[s].original)) = s

C24_Witness ==
    /\ op.name = "find_state"
    /\ given.state = FirstState
    /\ Len(sm.states) = Cardinality(Names)
    /\ obj = <<1, 0>>

\* C25: two State values compare equal if and only if they have the same
\* origin: a state built by add_state is equal only to itself, states of
\* different origins are never equal, and a machine instantiated from a class
\* that declares states holds its own copies of them, equal to the copies of
\* another instance.
C25_EqualIffSameOrigin ==
    /\ \A i, j \in DOMAIN sm.states :
          StateEq(sm, i, sm.states[j].original) <=> i = j
    /\ op.name = "statemachine.__init__" => ~Raises(ret)

\* The places of the transitions of state s, in the order of its list.
TransitionsOf(m, s) == [i \in 1..Len(m.states[s].transitions) |-> <<s, i>>]

\* The places of the transitions of the states s, s + 1, ..., state by state.
RECURSIVE Grouped(_, _)
Grouped(m, s) ==
    IF s > Len(m.states) THEN <<>>
    ELSE TransitionsOf(m, s) \o Grouped(m, s + 1)

\* The iterator held has reached its end, and no state or transition was
\* added since it was obtained.
Consumed(kind) ==
    /\ it.kind = kind
    /\ it.done
    /\ sm.states = seen

\* C26: all_states() yields every state of the machine once, in the order
\* the states were added; all_transitions() yields every transition once,
\* state by state in that order and, within a state, in the order of its list
\* of transitions.
C26_AllInOrder ==
    /\ Consumed("all_states") =>
          /\ it.yielded = [s \in 1..Len(sm.states) |-> <<s, 0>>]
          /\ \A s \in DOMAIN sm.states : sm.states[s].original = s
    /\ Consumed("all_transitions") => it.yielded = Grouped(sm, 1)

C26_Witness ==
    /\ Consumed("all_transitions")
    /\ Len(it.yielded) = MaxQueryTransitions
    /\ it.yielded[1][1] # it.yielded[Len(it.yielded)][1]

\* The state of m a resolving reference designates.
TheState(m, ref) == CHOOSE s \in Designated(m, ref) : TRUE

\* The transitions to state x: those whose destination has the identity of
\* x, and those without destination that belong to x.
To(m, x) ==
    SelectSeq(Grouped(m, 1),
              LAMBDA p : LET t == m.states[p[1]].transitions[p[2]] IN
                         IF t.to_state = NoState THEN p[1] = x
                         ELSE m.states[t.to_state].original = m.states[x].original)

\* C27: with references that resolve, transitions_to(X) yields the
\* transitions whose destination is X together with the transitions without
\* destination of X, in all_transitions order; transitions_between(S, X)
\* yields those of them whose source is S; transitions_from(S) yields the
\* transitions of S in the order of its list.
C27_SelectedTransitions ==
    /\ (Consumed("transitions_to") /\ it.started) =>
          it.yielded = To(sm, TheState(sm, it.dest))
    /\ (Consumed("transitions_between") /\ it.started) =>
          it.yielded = SelectSeq(To(sm, TheState(sm, it.dest)),
                                 LAMBDA p : p[1] = TheState(sm, it.src))
    /\ Consumed("transitions_from") =>
          it.yielded = TransitionsOf(sm, TheState(sm, it.src))

C27_Witness ==
    /\ Consumed("transitions_to")
    /\ it.started
    /\ Len(it.yielded) = MaxQueryTransitions
    /\ \E k \in DOMAIN it.yielded :
          sm.states[it.yielded[k][1]].transitions[it.yielded[k][2]].to_state = NoState
    /\ \E k \in DOMAIN it.yielded :
          sm.states[it.yielded[k][1]].transitions[it.yielded[k][2]].to_state # NoState

\* C28: transitions(src, dest) gives what all_transitions() gives when both
\* arguments are None, what transitions_from(src) gives when only src is
\* given, what transitions_to(dest) gives when only dest is given, and what
\* transitions_between(src, dest) gives when both are given.
C28_TransitionsDispatch ==
    op.name = "transitions" =>
        LET expected ==
              IF given.state = NoRef /\ given.to = NoRef THEN all_transitions(pre)
              ELSE IF given.to = NoRef THEN transitions_from(pre, given.state)
              ELSE IF given.state = NoRef THEN transitions_to(pre, given.to)
              ELSE transitions_between(pre, given.state, given.to)
        IN /\ ret = expected.ret
           /\ ret = "Iterator" => it = expected.it

\* C29: transitions_from, transitions_to and transitions_between fail with
\* StateUnknown, the error of the builder operations, when a state they are
\* given does not resolve in the machine, at the call or when the iterator is
\* first used, and yield no transition.
C29_UnresolvedQueryFails ==
    /\ (op.name = "transitions_from" /\ Designated(pre, given.state) = {}) =>
          ret = "StateUnknown"
    /\ (/\ op.name = "next"
        /\ it.kind \in {"transitions_to", "transitions_between"}
        /\ ~it.started
        /\ \/ Designated(pre, it.dest) = {}
           \/ it.kind = "transitions_between" /\ Designated(pre, it.src) = {}) =>
          /\ ret = "StateUnknown"
          /\ it.yielded = <<>>

\* C30: the iterator of a query method yields no state and no transition
\* that was added after the iterator was obtained.
C30_StableSnapshot ==
    \A k \in DOMAIN it.yielded :
        /\ it.yielded[k][1] \in DOMAIN seen
        /\ it.yielded[k][2] \in {0} \cup DOMAIN seen[it.yielded[k][1]].transitions

\* The names of the operations that return an iterator, and next.
Queries ==
    {"all_states", "all_transitions", "transitions_from", "transitions_to",
     "transitions_between", "transitions", "next"}

\* Sequence a is the beginning of sequence b.
IsPrefix(a, b) == Len(a) <= Len(b) /\ SubSeq(b, 1, Len(a)) = a

\* C31: process_event, reset, suspend, resume, find_state, get_transition
\* and the query iterators leave the list of states, the list of transitions
\* of every state and start_state as they were; find_state, get_transition and
\* the query iterators also leave current_state and active as they were; no
\* operation removes a state or a transition.
C31_QueriesChangeNothing ==
    /\ op.name \in {"process_event", "reset", "suspend", "resume", "find_state",
                    "get_transition"} \cup Queries =>
          /\ sm.states = pre.states
          /\ sm.start_state = pre.start_state
    /\ op.name \in {"find_state", "get_transition"} \cup Queries =>
          /\ sm.current_state = pre.current_state
          /\ sm.active = pre.active
    /\ Len(pre.states) <= Len(sm.states)
    /\ \A s \in DOMAIN pre.states :
          /\ sm.states[s].name = pre.states[s].name
          /\ IsPrefix(pre.states[s].transitions, sm.states[s].transitions)

C31_Witness ==
    /\ op.name = "reset"
    /\ ~Raises(ret)
    /\ pre.current_state # pre.start_state
    /\ sm.current_state = sm.start_state
    /\ CountTransitions(sm, 1) = MaxFrameTransitions

\* C32: a successful add_transition puts the new transition at the end of the
\* list of its source state and leaves the transitions already there, of
\* every state, in place and in order, so that an event a state already had a
\* transition for still gets that transition, also when the new one is added
\* after events have been processed.
C32_AppendKeepsPriority ==
    (op.name = "add_transition" /\ ret = "Transition") =>
        LET s == obj[1]
            after == sm.states[s].transitions
        IN /\ Designated(pre, given.state) = {s}
           /\ obj[2] = Len(after)
           /\ SubSeq(after, 1, Len(after) - 1) = pre.states[s].transitions
           /\ \A r \in DOMAIN sm.states \ {s} :
                 sm.states[r].transitions = pre.states[r].transitions
           /\ \A r \in DOMAIN pre.states, event \in Events :
                 get_transition(pre, r, event).transition # 0 =>
                     get_transition(sm, r, event).transition
                         = get_transition(pre, r, event).transition

C32_Witness ==
    /\ op.name = "add_transition" /\ ret = "Transition"
    /\ sm.current_state # sm.start_state
    /\ obj[2] = MaxDispatchTransitions
    /\ \E event \in Events :
          /\ get_transition(pre, obj[1], event).transition = 1
          /\ Eligible(sm, obj[1], obj[2], event)

\* C33: in a machine that has a state, current_state and start_state are
\* states of the machine, after any sequence of add_state, add_transition,
\* process_event, reset, suspend and resume.
C33_PointersInMachine ==
    sm.states # <<>> =>
        /\ sm.current_state \in DOMAIN sm.states
        /\ sm.start_state \in DOMAIN sm.states

C33_Witness ==
    /\ op.name = "process_event"
    /\ ret = "True"
    /\ sm.current_state \in DOMAIN sm.states
    /\ sm.current_state # sm.start_state

\* The machine built with add_state from the states declared, in order.
RECURSIVE BuiltFrom(_, _)
BuiltFrom(m, declared) ==
    IF declared = <<>> THEN m
    ELSE BuiltFrom(add_state(m, Head(declared), None, None).m, Tail(declared))

\* C34: instantiating a machine declared with the decorators succeeds and
\* gives the machine that add_state and add_transition build from the same
\* declarations: the same states, start_state and current_state the first
\* state declared, and so the same current_state after any events.
C34_DeclaredEqualsBuilt ==
    op.name = "statemachine.__init__" =>
        /\ ret = "None"
        /\ \E declared \in Templates :
              sm = BuiltFrom(NewStateMachine(TRUE, FALSE), declared)

\* C35: while get_transition scans the transitions of a state, the guard of a
\* transition is called only after the test of the event type and
\* event.match have both succeeded for that transition, and no match
\* predicate or guard of a transition after the one returned is called.
C35_GuardAfterMatch ==
    op.name = "get_transition" =>
        LET ts == pre.states[pre.current_state].transitions IN
        /\ \A k \in DOMAIN log :
              /\ log[k].cb \in {"match", "guard"}
              /\ IsInstance(op.event, ts[log[k].index].event_type)
              /\ log[k].cb = "guard" =>
                    /\ k > 1
                    /\ log[k - 1].cb = "match"
                    /\ log[k - 1].index = log[k].index
                    /\ Match(op.event, ts[log[k].index])
        /\ ret = "Transition" => \A k \in DOMAIN log : log[k].index <= obj[2]

C35_Witness ==
    /\ op.name = "get_transition"
    /\ ret = "Transition"
    /\ obj[2] > 1
    /\ obj[2] < Len(pre.states[pre.current_state].transitions)
    /\ \E k \in DOMAIN log : log[k].cb = "guard" /\ log[k].index < obj[2]
    /\ pre.states[pre.current_state].transitions[obj[2] + 1].guard # None

\* C36: a transition whose destination is its own source state is fired as
\* any transition with a destination: the leave action of the state, the
\* action of the transition and the enter action of the state run, in this
\* order, and current_state keeps its value; only a transition without
\* destination runs neither leave nor enter.
C36_ExplicitSelfDestination ==
    (Dispatched /\ Fired # 0) =>
        LET A == pre.current_state
            actionStep ==
                IF FiredTransition.action # None
                THEN << [cb |-> "action", state |-> A, index |-> Fired,
                         event |-> op.event, current |-> A, active |-> TRUE] >>
                ELSE <<>>
        IN /\ FiredTransition.to_state = A =>
                 /\ ActionsRun(log) = LeaveStep(pre, A, TRUE) \o actionStep
                                          \o EnterStep(pre, A, TRUE)
                 /\ sm.current_state = A
           /\ (EntriesOf(log, "leave") = <<>> /\ EntriesOf(log, "enter") = <<>>) <=>
                 \/ FiredTransition.to_state = NoState
                 \/ /\ pre.states[A].leave = None
                    /\ pre.states[FiredTransition.to_state].enter = None

C36_Witness ==
    /\ Dispatched /\ Fired # 0
    /\ FiredTransition.to_state = pre.current_state
    /\ Len(ActionsRun(log)) = 3

\* C38: when the action of the transition raises while process_event fires a
\* transition from A to B, the leave action of A has run, the enter action
\* of B is not run and current_state is still A when the exception reaches
\* the caller; when the enter action of B raises instead, current_state is
\* already B.
C38_ActionOrEnterError ==
    (/\ Dispatched /\ Fired # 0
     /\ FiredTransition.to_state # NoState
     /\ ~CallbackRaises(pre.states[pre.current_state].leave)) =>
        LET A == pre.current_state
            B == FiredTransition.to_state
        IN /\ CallbackRaises(FiredTransition.action) =>
                 /\ ret = "CallbackError"
                 /\ EntriesOf(log, "leave") = LeaveStep(pre, A, TRUE)
                 /\ EntriesOf(log, "enter") = <<>>
                 /\ ActionsRun(log)[Len(ActionsRun(log))].cb = "action"
                 /\ sm.current_state = A
           /\ (~CallbackRaises(FiredTransition.action)
                  /\ CallbackRaises(pre.states[B].enter)) =>
                 /\ ret = "CallbackError"
                 /\ ActionsRun(log)[Len(ActionsRun(log))].cb = "enter"
                 /\ ActionsRun(log)[Len(ActionsRun(log))].current = B
                 /\ sm.current_state = B

C38_Witness ==
    /\ Dispatched /\ Fired # 0
    /\ FiredTransition.to_state \notin {NoState, pre.current_state}
    /\ pre.states[pre.current_state].leave = "leave"
    /\ CallbackRaises(FiredTransition.action)
    /\ pre.states[FiredTransition.to_state].enter # None
    /\ ret = "CallbackError"
    /\ Len(ActionsRun(log)) = 2

\* C39: when a leave or enter action raises during a reset that calls the
\* actions, the exception reaches the caller and the machine is left
\* inactive, so that process_event returns None until resume is called; when
\* it is the leave action that raised, current_state is still the old state.
C39_ResetErrorLeavesInactive ==
    /\ (op.name = "reset" /\ ret = "CallbackError") =>
          /\ ~sm.active
          /\ \A event \in Events : process_event(sm, event) = Outcome(sm, "None", <<>>)
          /\ log[Len(log)].cb = "leave" => sm.current_state = pre.current_state
    /\ (~pre.active /\ op.name # "resume") => ~sm.active

C39_Witness ==
    /\ op.name = "reset"
    /\ ret = "CallbackError"
    /\ pre.active
    /\ log[Len(log)].cb = "leave"
    /\ sm.current_state # sm.start_state

\* C37: when the leave action of A or the action of the transition, run by a
\* process_event that fires a transition from A to B, calls process_event on
\* the same machine, the nested call looks for its transition in A and may
\* fire one to a state C; the outer call then assigns B to current_state and
\* runs the enter action of B, so that current_state is B at the end.
C37_ReentrantCall ==
    (/\ Dispatched /\ Fired # 0
     /\ FiredTransition.to_state # NoState
     /\ Reenters(pre.states[pre.current_state].leave) # Reenters(FiredTransition.action)) =>
        LET A == pre.current_state
            B == FiredTransition.to_state
            nested == process_event(Plain(pre), ReentryEvent)
            called == ActionsRun(log)
        IN /\ ret = "True"
           /\ sm.current_state = B
           /\ called[Len(called)] = EnterStep(pre, B, TRUE)[1]
           /\ \A k \in DOMAIN log : log[k].cb \in {"match", "guard"} => log[k].state = A
           /\ Len(EntriesOf(log, "match")) =
                 Len(EntriesOf(Scan(pre, A, op.event, 1, <<>>).log, "match"))
                     + Len(EntriesOf(nested.log, "match"))
           /\ Len(EntriesOf(log, "enter")) = Len(EntriesOf(nested.log, "enter")) + 1

C37_Witness ==
    /\ Dispatched /\ Fired # 0
    /\ FiredTransition.to_state # NoState
    /\ Reenters(pre.states[pre.current_state].leave)
    /\ sm.current_state = FiredTransition.to_state
    /\ \E k \in DOMAIN log :
          /\ log[k].cb = "enter"
          /\ log[k].state \notin {pre.current_state, FiredTransition.to_state}

\* C40: two machines instantiated from the same declarations are independent
\* of one another: each exists and holds its own states, and process_event
\* on the one changes nothing of the other.
C40_InstancesIndependent ==
    op.name = "statemachine.__init__" =>
        \A declared \in Templates :
            LET other == statemachine_init(sm.active, FALSE, declared) IN
            /\ ~Raises(ret)
            /\ ~Raises(other.ret)
            /\ Len(other.m.states) = Len(declared)
            /\ \A event \in Events :
                  process_event(sm, event).m.states = sm.states

====
